---- MODULE Spec2Model ----
(***************************************************************************)
(* The turn-decision script of sandboxes/scripts/take_turn_common.py:      *)
(* run_from_stdin / main, _call_openrouter and _extract_json_object.       *)
(*                                                                         *)
(* Text is a sequence of characters, each a string.  A JSON value is a record  *)
(* [t, s, n, items]: t is the Python type the decoder builds ("dict",      *)
(* "list", "str", "int", "bool", "NoneType"), s the characters of a str,   *)
(* n the number of an int (1/0 for a bool), items the elements of a list   *)
(* or the <<key, value>> pairs of a dict in insertion order.               *)
(***************************************************************************)
EXTENDS Integers, Sequences, FiniteSets, TLC

\* ------------------------------------------------------------------ text

Range(f) == {f[i] : i \in DOMAIN f}

Min(S) == CHOOSE x \in S : \A y \in S : x <= y

Max(S) == CHOOSE x \in S : \A y \in S : x >= y

QUOTE == "\""

\* the grave accent (U+0060); a TLA+ string cannot hold it, so it is spelled out
BACKTICK == "GRAVE"

\* str.strip() and the pattern's \s, over the characters the replies use
PyWhitespace == {" ", "\n"}

\* json.decoder.WHITESPACE, over the characters the replies use
JsonWhitespace == {" ", "\n"}

\* characters below 0x20, which a strict JSON string may not hold
ControlChars == {"\n"}

Digits == {"0", "1", "2", "3", "4", "5", "6", "7", "8", "9"}

DigitVal(c) ==
    CASE c = "0" -> 0 [] c = "1" -> 1 [] c = "2" -> 2 [] c = "3" -> 3
      [] c = "4" -> 4 [] c = "5" -> 5 [] c = "6" -> 6 [] c = "7" -> 7
      [] c = "8" -> 8 [] c = "9" -> 9

DigitChar(d) == <<"0", "1", "2", "3", "4", "5", "6", "7", "8", "9">>[d + 1]

\* text[i:i+len(w)] == w, positions counted from 1
HasAt(text, i, w) ==
    /\ i >= 1
    /\ i + Len(w) - 1 <= Len(text)
    /\ \A k \in 1..Len(w) : text[i + k - 1] = w[k]

\* the first position >= i that holds no character of ws (Len(text)+1 at the end)
RECURSIVE SkipChars(_, _, _)
SkipChars(text, i, ws) ==
    IF i <= Len(text) /\ text[i] \in ws THEN SkipChars(text, i + 1, ws) ELSE i

\* str.strip()
Strip(text) ==
    LET keep == {i \in 1..Len(text) : text[i] \notin PyWhitespace}
    IN  IF keep = {} THEN <<>> ELSE SubSeq(text, Min(keep), Max(keep))

\* str.find(c) and str.rfind(c), positions counted from 1 and 0 for Python's -1
Find(text, c) ==
    LET at == {i \in 1..Len(text) : text[i] = c}
    IN  IF at = {} THEN 0 ELSE Min(at)

RFind(text, c) ==
    LET at == {i \in 1..Len(text) : text[i] = c}
    IN  IF at = {} THEN 0 ELSE Max(at)

\* ------------------------------------------------------------ JSON values

PyDict(pairs) == [t |-> "dict", s |-> <<>>, n |-> 0, items |-> pairs]

PyList(elems) == [t |-> "list", s |-> <<>>, n |-> 0, items |-> elems]

PyStr(chars) == [t |-> "str", s |-> chars, n |-> 0, items |-> <<>>]

PyInt(k) == [t |-> "int", s |-> <<>>, n |-> k, items |-> <<>>]

PyBool(b) == [t |-> "bool", s |-> <<>>, n |-> IF b THEN 1 ELSE 0, items |-> <<>>]

PyNone == [t |-> "NoneType", s |-> <<>>, n |-> 0, items |-> <<>>]

\* isinstance(parsed, dict)
IsDict(v) == v.t = "dict"

\* dict(pairs) as the decoder builds it: a repeated key keeps its first place
\* and takes the last value
DictSet(pairs, key, val) ==
    IF \E i \in 1..Len(pairs) : pairs[i][1] = key
    THEN [i \in 1..Len(pairs) |->
             IF pairs[i][1] = key THEN <<key, val>> ELSE pairs[i]]
    ELSE Append(pairs, <<key, val>>)

Keys(d) == {d.items[i][1] : i \in 1..Len(d.items)}

Lookup(d, key) == d.items[CHOOSE i \in 1..Len(d.items) : d.items[i][1] = key][2]

\* Python's == on decoded values: dicts compare without regard to order
RECURSIVE PyEq(_, _)
PyEq(a, b) ==
    /\ a.t = b.t
    /\ CASE a.t = "str" -> a.s = b.s
         [] a.t \in {"int", "bool"} -> a.n = b.n
         [] a.t = "NoneType" -> TRUE
         [] a.t = "list" ->
              /\ Len(a.items) = Len(b.items)
              /\ \A i \in 1..Len(a.items) : PyEq(a.items[i], b.items[i])
         [] a.t = "dict" ->
              /\ Keys(a) = Keys(b)
              /\ \A k \in Keys(a) : PyEq(Lookup(a, k), Lookup(b, k))

\* ------------------------------------------------------------- json.loads

\* a decoder result: the value and the position after it, or the
\* JSONDecodeError message and the position it names
Decoded(v, e) == [ok |-> TRUE, val |-> v, end |-> e, msg |-> ""]

DecodeError(m, e) == [ok |-> FALSE, val |-> PyNone, end |-> e, msg |-> m]

\* py_scanstring, strict: text from the character after the opening quote.
\* The replies hold no backslash, so no escape is ever decoded.
ScanString(text, begin) ==
    LET stop == {i \in begin..Len(text) :
                    text[i] = QUOTE \/ text[i] \in ControlChars}
    IN  IF stop = {}
        THEN DecodeError("Unterminated string starting at", begin - 1)
        ELSE IF text[Min(stop)] = QUOTE
        THEN Decoded(PyStr(SubSeq(text, begin, Min(stop) - 1)), Min(stop) + 1)
        ELSE DecodeError("Invalid control character at", Min(stop))

\* NUMBER_RE, integers only: -?(?:0|[1-9]\d*) (the replies hold no "-", "." or "e")
RECURSIVE DigitsValue(_, _, _)
DigitsValue(text, i, acc) ==
    IF i <= Len(text) /\ text[i] \in Digits
    THEN DigitsValue(text, i + 1, 10 * acc + DigitVal(text[i]))
    ELSE Decoded(PyInt(acc), i)

ScanNumber(text, i) ==
    IF text[i] = "0" THEN Decoded(PyInt(0), i + 1) ELSE DigitsValue(text, i, 0)

RECURSIVE ScanOnce(_, _), ObjectPairs(_, _, _), ArrayItems(_, _, _)

\* JSONObject's loop, one definition per step so that each scanned piece is
\* named once.  After a "," and whitespace: the quote of the next key, or
\* "Expecting property name enclosed in double quotes"
ObjectNextKey(text, got, next) ==
    IF ~HasAt(text, next, <<QUOTE>>)
    THEN DecodeError("Expecting property name enclosed in double quotes", next)
    ELSE ObjectPairs(text, next + 1, got)

\* after a value and whitespace: "}" ends the object, "," goes on
ObjectSeparator(text, got, sep) ==
    IF HasAt(text, sep, <<"}">>) THEN Decoded(PyDict(got), sep + 1)
    ELSE IF ~HasAt(text, sep, <<",">>)
    THEN DecodeError("Expecting ',' delimiter", sep)
    ELSE ObjectNextKey(text, got, SkipChars(text, sep + 1, JsonWhitespace))

\* the value of a key has been scanned
ObjectValue(text, name, value, pairs) ==
    IF ~value.ok THEN value
    ELSE ObjectSeparator(text, DictSet(pairs, name, value.val),
                         SkipChars(text, value.end, JsonWhitespace))

\* after a key and whitespace: ":" and the value
ObjectColon(text, name, colon, pairs) ==
    IF ~HasAt(text, colon, <<":">>)
    THEN DecodeError("Expecting ':' delimiter", colon)
    ELSE ObjectValue(text, name,
                     ScanOnce(text, SkipChars(text, colon + 1, JsonWhitespace)),
                     pairs)

\* a key has been scanned
ObjectKey(text, key, pairs) ==
    IF ~key.ok THEN key
    ELSE ObjectColon(text, key.val.s,
                     SkipChars(text, key.end, JsonWhitespace), pairs)

\* at is the position after the opening quote of a key
ObjectPairs(text, at, pairs) == ObjectKey(text, ScanString(text, at), pairs)

\* first is the position of the first character after "{" and whitespace
ObjectFirst(text, first) ==
    IF HasAt(text, first, <<"}">>) THEN Decoded(PyDict(<<>>), first + 1)
    ELSE IF ~HasAt(text, first, <<QUOTE>>)
    THEN DecodeError("Expecting property name enclosed in double quotes", first)
    ELSE ObjectPairs(text, first + 1, <<>>)

\* JSONObject: at is the position after "{"
ScanObject(text, at) == ObjectFirst(text, SkipChars(text, at, JsonWhitespace))

\* JSONArray's loop.  After an element and whitespace: "]" ends the array,
\* "," goes on
ArraySeparator(text, got, sep) ==
    IF HasAt(text, sep, <<"]">>) THEN Decoded(PyList(got), sep + 1)
    ELSE IF ~HasAt(text, sep, <<",">>)
    THEN DecodeError("Expecting ',' delimiter", sep)
    ELSE ArrayItems(text, SkipChars(text, sep + 1, JsonWhitespace), got)

\* an element has been scanned
ArrayValue(text, value, elems) ==
    IF ~value.ok THEN value
    ELSE ArraySeparator(text, Append(elems, value.val),
                        SkipChars(text, value.end, JsonWhitespace))

\* at is the position of the next element
ArrayItems(text, at, elems) == ArrayValue(text, ScanOnce(text, at), elems)

\* first is the position of the first character after "[" and whitespace
ArrayFirst(text, first) ==
    IF HasAt(text, first, <<"]">>) THEN Decoded(PyList(<<>>), first + 1)
    ELSE ArrayItems(text, first, <<>>)

\* JSONArray: at is the position after "["
ScanArray(text, at) == ArrayFirst(text, SkipChars(text, at, JsonWhitespace))

\* scanner.scan_once; StopIteration becomes "Expecting value" in every caller
ScanOnce(text, i) ==
    IF i > Len(text) THEN DecodeError("Expecting value", i)
    ELSE CASE text[i] = QUOTE -> ScanString(text, i + 1)
           [] text[i] = "{" -> ScanObject(text, i + 1)
           [] text[i] = "[" -> ScanArray(text, i + 1)
           [] HasAt(text, i, <<"n", "u", "l", "l">>) -> Decoded(PyNone, i + 4)
           [] HasAt(text, i, <<"t", "r", "u", "e">>) -> Decoded(PyBool(TRUE), i + 4)
           [] HasAt(text, i, <<"f", "a", "l", "s", "e">>) ->
                Decoded(PyBool(FALSE), i + 5)
           [] text[i] \in Digits -> ScanNumber(text, i)
           [] OTHER -> DecodeError("Expecting value", i)

\* JSONDecoder.decode after raw_decode: only whitespace may follow the value
DecodeEnd(text, obj, end) ==
    IF end # Len(text) + 1 THEN DecodeError("Extra data", end) ELSE obj

DecodeValue(text, obj) ==
    IF ~obj.ok THEN obj
    ELSE DecodeEnd(text, obj, SkipChars(text, obj.end, JsonWhitespace))

\* json.loads: JSONDecoder.decode
JsonLoads(text) ==
    DecodeValue(text, ScanOnce(text, SkipChars(text, 1, JsonWhitespace)))

\* ------------------------------------------------------------- json.dumps

RECURSIVE IntChars(_)
IntChars(k) ==
    IF k < 10 THEN <<DigitChar(k)>> ELSE Append(IntChars(k \div 10), DigitChar(k % 10))

\* json.dumps with the default separators (", " and ": ").  A decoded str of
\* the replies holds no quote, backslash, control or non-ASCII character, so
\* the encoder escapes nothing.
RECURSIVE JsonDumps(_), DumpItems(_, _, _)
DumpItems(items, i, isDict) ==
    IF i > Len(items) THEN <<>>
    ELSE (IF i > 1 THEN <<",", " ">> ELSE <<>>)
         \o (IF isDict
             THEN <<QUOTE>> \o items[i][1] \o <<QUOTE, ":", " ">>
                  \o JsonDumps(items[i][2])
             ELSE JsonDumps(items[i]))
         \o DumpItems(items, i + 1, isDict)

JsonDumps(v) ==
    CASE v.t = "str" -> <<QUOTE>> \o v.s \o <<QUOTE>>
      [] v.t = "int" -> IntChars(v.n)
      [] v.t = "bool" -> IF v.n = 1 THEN <<"t", "r", "u", "e">>
                         ELSE <<"f", "a", "l", "s", "e">>
      [] v.t = "NoneType" -> <<"n", "u", "l", "l">>
      [] v.t = "list" -> <<"[">> \o DumpItems(v.items, 1, FALSE) \o <<"]">>
      [] v.t = "dict" -> <<"{">> \o DumpItems(v.items, 1, TRUE) \o <<"}">>

\* ------------------------------------------------------ _extract_json_object

FENCE == <<BACKTICK, BACKTICK, BACKTICK>>

JSON_TAG == <<"j", "s", "o", "n">>

NoMatch == [found |-> FALSE, group |-> <<>>]

\* the opening brace of the pattern for a match starting at i: the fence, the
\* optional tag (taken when it is there: without it the next character is "j",
\* neither whitespace nor a brace), then all the whitespace; 0 when there is none
FenceBrace(text, i) ==
    IF ~HasAt(text, i, FENCE) THEN 0
    ELSE LET tagEnd == IF HasAt(text, i + 3, JSON_TAG) THEN i + 7 ELSE i + 3
             b == SkipChars(text, tagEnd, PyWhitespace)
         IN  IF HasAt(text, b, <<"{">>) THEN b ELSE 0

\* the closing braces e after b that end group 1: "}" then whitespace then the fence
FenceCloses(text, b) ==
    {e \in (b + 1)..Len(text) :
        /\ text[e] = "}"
        /\ HasAt(text, SkipChars(text, e + 1, PyWhitespace), FENCE)}

\* re.search of the fence pattern with DOTALL: the leftmost start that matches,
\* and from it the lazy .*? stops at the first closing brace that lets the rest match
FenceSearch(text) ==
    LET starts == {i \in 1..Len(text) :
                      /\ FenceBrace(text, i) # 0
                      /\ FenceCloses(text, FenceBrace(text, i)) # {}}
    IN  IF starts = {} THEN NoMatch
        ELSE LET b == FenceBrace(text, Min(starts))
             IN  [found |-> TRUE, group |-> SubSeq(text, b, Min(FenceCloses(text, b)))]

NoException == [type |-> "", msg |-> <<>>]

Exception(type, msg) == [type |-> type, msg |-> msg]

NO_ACTION_MESSAGE == <<"LLM response did not contain a JSON object action">>

Returns(v) == [raised |-> FALSE, value |-> v, exc |-> NoException]

Raises(e) == [raised |-> TRUE, value |-> PyNone, exc |-> e]

\* lines 20-21: group 1 of the fence match, stripped, or else the text
FencedText(text, fenced_match) ==
    IF fenced_match.found THEN Strip(fenced_match.group) ELSE text

\* lines 17-21: the text the parsing tiers work on
CandidateOf(stripped) == FencedText(stripped, FenceSearch(stripped))

Candidate(raw) == CandidateOf(Strip(raw))

\* lines 33-37: json.loads of the span is outside any try
BraceSpanResult(parsed) ==
    IF ~parsed.ok THEN Raises(Exception("JSONDecodeError", <<parsed.msg>>))
    ELSE IF IsDict(parsed.val) THEN Returns(parsed.val)
    ELSE Raises(Exception("ValueError", NO_ACTION_MESSAGE))

\* line 32: text[start : end + 1] when both braces are found and end > start
BraceSpan(text, start, end) ==
    IF start # 0 /\ end # 0 /\ end > start
    THEN BraceSpanResult(JsonLoads(SubSeq(text, start, end)))
    ELSE Raises(Exception("ValueError", NO_ACTION_MESSAGE))

\* lines 30-37: the span from the first "{" to the last "}"
BraceSpanTier(text) == BraceSpan(text, Find(text, "{"), RFind(text, "}"))

\* a variant of lines 23-28 without the isinstance test of line 25
DirectResultAnyValue(text, parsed) ==
    IF parsed.ok THEN Returns(parsed.val)
    ELSE BraceSpanTier(text)

\* lines 23-28: a dict is returned; a JSONDecodeError or another value falls through
DirectResult(text, parsed) ==
    IF parsed.ok /\ IsDict(parsed.val) THEN Returns(parsed.val)
    ELSE BraceSpanTier(text)

DirectTier(text) == DirectResult(text, JsonLoads(text))

ExtractJsonObject(raw) == DirectTier(Candidate(raw))

\* ------------------------------------------------------- the environment

\* the key state.get("env_type") reads
ENV_TYPE == <<"e", "n", "v", "_", "t", "y", "p", "e">>

CHOICES == <<"c", "h", "o", "i", "c", "e", "s">>

MESSAGE == <<"m", "e", "s", "s", "a", "g", "e">>

CONTENT == <<"c", "o", "n", "t", "e", "n", "t">>

\* the suffix of f"{env_type}-player.md"
PLAYER_MD == <<"-", "p", "l", "a", "y", "e", "r", ".", "m", "d">>

\* the credential the tests set
TEST_KEY == <<"t", "e", "s", "t", "-", "k", "e", "y">>

\* what the tests write into each skill document, after the env_type
SKILL_PROMPT ==
    <<" ", "s", "k", "i", "l", "l", " ", "p", "r", "o", "m", "p", "t">>

\* the input channel: what json.load(sys.stdin) may be given
StdinNotJson == <<"x">>

StdinList == <<"[", "1", "]">>

StdinNoEnvType == <<"{", "}">>

StdinEmptyEnvType ==
    <<"{", QUOTE, "e", "n", "v", "_", "t", "y", "p", "e", QUOTE, ":", QUOTE,
      QUOTE, "}">>

StdinZeroEnvType ==
    <<"{", QUOTE, "e", "n", "v", "_", "t", "y", "p", "e", QUOTE, ":", "0", "}">>

StdinNumberEnvType ==
    <<"{", QUOTE, "e", "n", "v", "_", "t", "y", "p", "e", QUOTE, ":", "5", "}">>

StdinTrueEnvType ==
    <<"{", QUOTE, "e", "n", "v", "_", "t", "y", "p", "e", QUOTE, ":", "t",
      "r", "u", "e", "}">>

StdinListEnvType ==
    <<"{", QUOTE, "e", "n", "v", "_", "t", "y", "p", "e", QUOTE, ":", "[",
      "1", "]", "}">>

StdinRpg ==
    <<"{", QUOTE, "e", "n", "v", "_", "t", "y", "p", "e", QUOTE, ":", QUOTE,
      "r", "p", "g", QUOTE, ",", QUOTE, "t", "u", "r", "n", QUOTE, ":", "1",
      "}">>

StdinCatan ==
    <<"{", QUOTE, "e", "n", "v", "_", "t", "y", "p", "e", QUOTE, ":", QUOTE,
      "c", "a", "t", "a", "n", QUOTE, "}">>

StdinInputs ==
    {StdinNotJson, StdinList, StdinNoEnvType, StdinEmptyEnvType, StdinZeroEnvType,
     StdinNumberEnvType, StdinTrueEnvType, StdinListEnvType, StdinRpg, StdinCatan}

\* documents a skills directory may hold
RPG_PLAYER_MD ==
    <<"r", "p", "g", "-", "p", "l", "a", "y", "e", "r", ".", "m", "d">>

NUMBER_PLAYER_MD == <<"5", "-", "p", "l", "a", "y", "e", "r", ".", "m", "d">>

\* the skills directories of the runs: empty, or holding these two documents
SkillsDirs == {{}, {RPG_PLAYER_MD, NUMBER_PLAYER_MD}}

\* OPENROUTER_API_KEY: unset, set to the empty string, or set to a key
UnsetEnv == [set |-> FALSE, value |-> <<>>]

SetEnv(chars) == [set |-> TRUE, value |-> chars]

ApiKeys == {UnsetEnv, SetEnv(<<>>), SetEnv(TEST_KEY)}

\* the pieces a reply of the model is put together from
PartEmptyObject == <<"{", "}">>

PartObject == <<"{", QUOTE, "a", QUOTE, ":", "1", "}">>

PartArrayOfObjects == <<"[", "{", "}", "]">>

PartArray == <<"[", "1", "]">>

PartScalar == <<"1">>

PartProse == <<"x">>

PartNewline == <<"\n">>

PartFence == <<BACKTICK, BACKTICK, BACKTICK>>

PartJsonFence == <<BACKTICK, BACKTICK, BACKTICK, "j", "s", "o", "n", "\n">>

PartOpenString == <<"{", QUOTE, "a", QUOTE, ":", QUOTE>>

PartCloseString == <<QUOTE, "}">>

PartFencedObject ==
    <<BACKTICK, BACKTICK, BACKTICK, "{", "}", BACKTICK, BACKTICK, BACKTICK>>

PartFencedProse ==
    <<BACKTICK, BACKTICK, BACKTICK, "x", BACKTICK, BACKTICK, BACKTICK>>

Parts ==
    {PartEmptyObject, PartObject, PartArrayOfObjects, PartArray,
     PartScalar, PartProse, PartNewline, PartFence,
     PartJsonFence, PartOpenString, PartCloseString, PartFencedObject,
     PartFencedProse}

\* the reply of the tests' stub server
StubReply ==
    <<BACKTICK, BACKTICK, BACKTICK, "j", "s", "o", "n", "\n", "{", QUOTE,
      "a", "c", "t", "i", "o", "n", QUOTE, ":", QUOTE, "e", "x", "p", "l",
      "o", "r", "e", QUOTE, ",", QUOTE, "t", "a", "r", "g", "e", "t", QUOTE,
      ":", QUOTE, "r", "u", "i", "n", "s", QUOTE, "}", "\n", BACKTICK,
      BACKTICK, BACKTICK>>

\* prose around an inline object
ProseReply ==
    <<"I", " ", "c", "h", "o", "o", "s", "e", ":", " ", "{", QUOTE, "a", "c",
      "t", "i", "o", "n", QUOTE, ":", QUOTE, "w", "a", "i", "t", QUOTE, "}",
      " ", "d", "o", "n", "e", ".">>

\* every text of at most MaxParts pieces
MaxParts == 3

RECURSIVE Concat(_, _)
Concat(pieces, i) ==
    IF i > Len(pieces) THEN <<>> ELSE pieces[i] \o Concat(pieces, i + 1)

Replies ==
    {Concat(pieces, 1) : pieces \in UNION {[1..k -> Parts] : k \in 0..MaxParts}}
    \cup {StubReply, ProseReply}

\* the provider's answers to a request that got through: a body that is no
\* JSON, envelopes that lack what line 82 subscripts, and the envelope of a reply
NotJsonBody == [json |-> FALSE, msg |-> "Expecting value", data |-> PyNone]

JsonBody(v) == [json |-> TRUE, msg |-> "", data |-> v]

Envelope(content) ==
    PyDict(<<<<CHOICES, PyList(<<PyDict(<<<<MESSAGE,
                                           PyDict(<<<<CONTENT, content>>>>)>>>>)>>)>>>>)

MalformedBodies ==
    {NotJsonBody,
     JsonBody(PyList(<<>>)),
     JsonBody(PyDict(<<>>)),
     JsonBody(PyDict(<<<<CHOICES, PyList(<<>>)>>>>)),
     JsonBody(PyDict(<<<<CHOICES, PyList(<<PyDict(<<>>)>>)>>>>)),
     JsonBody(Envelope(PyNone))}

\* -------------------------------------------------------- Python semantics

\* bool(v), the test of "if not env_type"
Truthy(v) ==
    CASE v.t = "NoneType" -> FALSE
      [] v.t = "str" -> v.s # <<>>
      [] v.t \in {"int", "bool"} -> v.n # 0
      [] v.t \in {"list", "dict"} -> v.items # <<>>

\* repr(v) of a decoded value (a str of the inputs holds no quote or backslash)
RECURSIVE PyRepr(_), ReprItems(_, _, _)
ReprItems(items, i, isDict) ==
    IF i > Len(items) THEN <<>>
    ELSE (IF i > 1 THEN <<",", " ">> ELSE <<>>)
         \o (IF isDict
             THEN <<"'">> \o items[i][1] \o <<"'", ":", " ">> \o PyRepr(items[i][2])
             ELSE PyRepr(items[i]))
         \o ReprItems(items, i + 1, isDict)

PyRepr(v) ==
    CASE v.t = "str" -> <<"'">> \o v.s \o <<"'">>
      [] v.t = "int" -> IntChars(v.n)
      [] v.t = "bool" -> IF v.n = 1 THEN <<"T", "r", "u", "e">>
                         ELSE <<"F", "a", "l", "s", "e">>
      [] v.t = "NoneType" -> <<"N", "o", "n", "e">>
      [] v.t = "list" -> <<"[">> \o ReprItems(v.items, 1, FALSE) \o <<"]">>
      [] v.t = "dict" -> <<"{">> \o ReprItems(v.items, 1, TRUE) \o <<"}">>

\* format(v, ""), what an f-string puts for {v}
PyFormat(v) == IF v.t = "str" THEN v.s ELSE PyRepr(v)

\* v[key] for a key that is a str or an int
Subscript(v, key) ==
    CASE v.t = "dict" ->
           IF key.t = "str" /\ key.s \in Keys(v) THEN Returns(Lookup(v, key.s))
           ELSE Raises(Exception("KeyError", <<PyRepr(key)>>))
      [] v.t = "list" ->
           IF key.t # "int"
           THEN Raises(Exception("TypeError",
                    <<"list indices must be integers or slices, not str">>))
           ELSE IF key.n + 1 \in 1..Len(v.items) THEN Returns(v.items[key.n + 1])
           ELSE Raises(Exception("IndexError", <<"list index out of range">>))
      [] v.t = "str" ->
           IF key.t # "int"
           THEN Raises(Exception("TypeError", <<"string indices must be integers">>))
           ELSE IF key.n + 1 \in 1..Len(v.s) THEN Returns(PyStr(<<v.s[key.n + 1]>>))
           ELSE Raises(Exception("IndexError", <<"string index out of range">>))
      [] OTHER ->
           Raises(Exception("TypeError", <<v.t, "object is not subscriptable">>))

\* dict.get(key): None when the key is absent
DictGet(d, key) == IF key \in Keys(d) THEN Lookup(d, key) ELSE PyNone

\* got[key], unless getting got raised
ThenSubscript(got, key) == IF got.raised THEN got ELSE Subscript(got.value, key)

\* data["choices"][0]["message"]["content"]
RawMessage(data) ==
    ThenSubscript(
        ThenSubscript(
            ThenSubscript(Subscript(data, PyStr(CHOICES)), PyInt(0)),
            PyStr(MESSAGE)),
        PyStr(CONTENT))

\* a variant of the test of lines 49 and 91 that takes an empty credential for
\* a credential: "is None" in place of "not"
KeyMissingWhenUnset(env) == ~env.set

\* os.getenv("OPENROUTER_API_KEY") is None or ""
KeyMissing(env) == ~env.set \/ env.value = <<>>

KEY_REQUIRED == <<"OPENROUTER_API_KEY", "is required">>

\* --------------------------------------------------------------- the run

VARIABLES
    stdin,         \* the text on the input channel
    apiKey,        \* OPENROUTER_API_KEY in the environment
    skillsDir,     \* the documents in SANDBOX_SKILLS_DIR
    pc,            \* the line main has reached
    state,         \* run_from_stdin's state
    opened,        \* the skill paths open() was called with, in order
    skill_prompt,  \* run_from_stdin's skill_prompt
    requests,      \* the requests urlopen has sent, in order
    body,          \* the response body read at line 74
    action,        \* run_from_stdin's action
    exc,           \* the exception on its way to main's handler
    stdout,        \* the characters written to the output channel
    stderr,        \* the lines printed to the diagnostic channel
    exitCode       \* the process's exit status, -1 while it runs

vars == <<stdin, apiKey, skillsDir, pc, state, opened, skill_prompt, requests,
          body, action, exc, stdout, stderr, exitCode>>

NoBody == [json |-> FALSE, msg |-> "", data |-> PyNone]

Init ==
    /\ stdin \in StdinInputs
    /\ apiKey \in ApiKeys
    /\ skillsDir \in SkillsDirs
    /\ pc = "read_state"
    /\ state = PyNone
    /\ opened = <<>>
    /\ skill_prompt = <<>>
    /\ requests = <<>>
    /\ body = NoBody
    /\ action = PyNone
    /\ exc = NoException
    /\ stdout = <<>>
    /\ stderr = <<>>
    /\ exitCode = -1

\* an exception leaves run_from_stdin for main's handler
Raise(e) ==
    /\ exc' = e
    /\ pc' = "except"

\* lines 87-90: state.get("env_type") and "if not env_type" on what
\* json.load(sys.stdin) gave
IngestParsed(parsed) ==
    IF ~parsed.ok THEN Raises(Exception("JSONDecodeError", <<parsed.msg>>))
    ELSE IF ~IsDict(parsed.val)
    THEN Raises(Exception("AttributeError",
             <<parsed.val.t, "object has no attribute 'get'">>))
    ELSE IF ~Truthy(DictGet(parsed.val, ENV_TYPE))
    THEN Raises(Exception("RuntimeError", <<"Input JSON must include env_type">>))
    ELSE Returns(parsed.val)

StateIngest(text) == IngestParsed(JsonLoads(text))

\* StateIngest of every input, worked out once
Ingest == [text \in StdinInputs |-> StateIngest(text)]

Ingested(got) ==
    IF got.raised
    THEN Raise(got.exc) /\ UNCHANGED state
    ELSE state' = got.value /\ pc' = "check_key" /\ UNCHANGED exc

ReadState ==
    /\ pc = "read_state"
    /\ Ingested(Ingest[stdin])
    /\ UNCHANGED <<stdin, apiKey, skillsDir, opened, skill_prompt, requests, body,
                   action, stdout, stderr, exitCode>>

\* a variant of run_from_stdin without lines 91-92
CheckKeySkipped ==
    /\ pc = "check_key"
    /\ pc' = "read_skill"
    /\ UNCHANGED <<stdin, apiKey, skillsDir, state, opened, skill_prompt, requests,
                   body, action, exc, stdout, stderr, exitCode>>

\* lines 91-92
CheckKey ==
    /\ pc = "check_key"
    /\ IF KeyMissing(apiKey)
       THEN Raise(Exception("RuntimeError", KEY_REQUIRED))
       ELSE pc' = "read_skill" /\ UNCHANGED exc
    /\ UNCHANGED <<stdin, apiKey, skillsDir, state, opened, skill_prompt, requests,
                   body, action, stdout, stderr, exitCode>>

\* line 95: f"{env_type}-player.md" in the skills directory
SkillPath(st) == PyFormat(DictGet(st, ENV_TYPE)) \o PLAYER_MD

\* what the document of that name holds
SkillDocument(name) ==
    SubSeq(name, 1, Len(name) - Len(PLAYER_MD)) \o SKILL_PROMPT

\* lines 94-97: open() of the path, then read()
ReadSkill ==
    /\ pc = "read_skill"
    /\ opened' = Append(opened, SkillPath(state))
    /\ IF SkillPath(state) \in skillsDir
       THEN /\ skill_prompt' = SkillDocument(SkillPath(state))
            /\ pc' = "call"
            /\ UNCHANGED exc
       ELSE /\ Raise(Exception("FileNotFoundError",
                        <<"[Errno 2] No such file or directory:", "skill document">>))
            /\ UNCHANGED skill_prompt
    /\ UNCHANGED <<stdin, apiKey, skillsDir, state, requests, body, action, stdout,
                   stderr, exitCode>>

\* lines 62-70: the request, by its Authorization header and its system message
Request(key, prompt_skill) ==
    [authorization |-> <<"Bearer ">> \o key, system |-> prompt_skill]

\* lines 48-73: _call_openrouter up to urlopen, which sends the request
SendRequest ==
    /\ pc = "call"
    /\ IF KeyMissing(apiKey)
       THEN Raise(Exception("RuntimeError", KEY_REQUIRED)) /\ UNCHANGED requests
       ELSE /\ requests' = Append(requests, Request(apiKey.value, skill_prompt))
            /\ pc' = "urlopen"
            /\ UNCHANGED exc
    /\ UNCHANGED <<stdin, apiKey, skillsDir, state, opened, skill_prompt, body,
                   action, stdout, stderr, exitCode>>

\* lines 75-77: a non-success status
ResponseHTTPError ==
    /\ pc = "urlopen"
    /\ \E code \in {"429", "500"} :
           Raise(Exception("RuntimeError",
                     <<"OpenRouter request failed:", code, "details">>))
    /\ UNCHANGED <<stdin, apiKey, skillsDir, state, opened, skill_prompt, requests,
                   body, action, stdout, stderr, exitCode>>

\* a variant of lines 78-79 that sends the request again when the endpoint is
\* not reached
ResponseURLErrorRetry ==
    /\ pc = "urlopen"
    /\ pc' = "call"
    /\ UNCHANGED <<stdin, apiKey, skillsDir, state, opened, skill_prompt, requests,
                   body, action, exc, stdout, stderr, exitCode>>

\* lines 78-79: the endpoint is not reached
ResponseURLError ==
    /\ pc = "urlopen"
    /\ \E reason \in {"Connection refused", "timed out"} :
           Raise(Exception("RuntimeError", <<"OpenRouter request failed:", reason>>))
    /\ UNCHANGED <<stdin, apiKey, skillsDir, state, opened, skill_prompt, requests,
                   body, action, stdout, stderr, exitCode>>

\* lines 82-83: raw.strip() needs a str; then _extract_json_object
ExtractMessage(raw_message) ==
    IF raw_message.raised THEN raw_message
    ELSE IF raw_message.value.t # "str"
    THEN Raises(Exception("AttributeError",
             <<raw_message.value.t, "object has no attribute 'strip'">>))
    ELSE ExtractJsonObject(raw_message.value.s)

\* lines 81-83 on a body: json.loads, the subscripts, _extract_json_object
DecodeBody(b) ==
    IF ~b.json THEN Raises(Exception("JSONDecodeError", <<b.msg>>))
    ELSE ExtractMessage(RawMessage(b.data))

\* _call_openrouter returns the action or raises
Delivered(got) ==
    IF got.raised
    THEN Raise(got.exc) /\ UNCHANGED action
    ELSE action' = got.value /\ pc' = "emit" /\ UNCHANGED exc

\* lines 73-74 and 81-83 once urlopen has returned: the body is read and decoded
Receive(b) ==
    /\ body' = b
    /\ Delivered(DecodeBody(b))
    /\ UNCHANGED <<stdin, apiKey, skillsDir, state, opened, skill_prompt, requests,
                   stdout, stderr, exitCode>>

\* a success status with a body that is not the envelope of a reply
ResponseMalformed ==
    /\ pc = "urlopen"
    /\ \E b \in MalformedBodies : Receive(b)

\* a success status with the envelope of a reply
ResponseReply ==
    /\ pc = "urlopen"
    /\ \E r \in Replies : Receive(JsonBody(Envelope(PyStr(r))))

\* lines 100-101, then main returns and the process exits with status 0
Emit ==
    /\ pc = "emit"
    /\ stdout' = stdout \o JsonDumps(action) \o <<"\n">>
    /\ exitCode' = 0
    /\ pc' = "exit"
    /\ UNCHANGED <<stdin, apiKey, skillsDir, state, opened, skill_prompt, requests,
                   body, action, exc, stderr>>

\* a variant of lines 107-109 without the sys.exit(1) of line 109
MainExceptExitZero ==
    /\ pc = "except"
    /\ stderr' = Append(stderr, exc.msg)
    /\ exitCode' = 0
    /\ pc' = "exit"
    /\ UNCHANGED <<stdin, apiKey, skillsDir, state, opened, skill_prompt, requests,
                   body, action, exc, stdout>>

\* lines 107-109: print(str(exc), file=sys.stderr); sys.exit(1)
MainExcept ==
    /\ pc = "except"
    /\ stderr' = Append(stderr, exc.msg)
    /\ exitCode' = 1
    /\ pc' = "exit"
    /\ UNCHANGED <<stdin, apiKey, skillsDir, state, opened, skill_prompt, requests,
                   body, action, exc, stdout>>

Next ==
    \/ ReadState
    \/ CheckKey
    \/ ReadSkill
    \/ SendRequest
    \/ ResponseHTTPError
    \/ ResponseURLError
    \/ ResponseMalformed
    \/ ResponseReply
    \/ Emit
    \/ MainExcept

Spec == Init /\ [][Next]_vars

\* --------------------------------------------------------------- claims

\* the run has ended
Exited == pc = "exit"

\* a body that is the envelope of a text reply has been read; Reply is that text
GotReply ==
    /\ body.json
    /\ ~RawMessage(body.data).raised
    /\ RawMessage(body.data).value.t = "str"

Reply == RawMessage(body.data).value.s

\* out is one line: it ends with its only newline
OneLine(out) ==
    /\ Len(out) >= 1
    /\ out[Len(out)] = "\n"
    /\ \A k \in 1..(Len(out) - 1) : out[k] # "\n"

\* what a reader of the output channel decodes from the line
LineDecoded(out) == JsonLoads(SubSeq(out, 1, Len(out) - 1))

\* C1: output is all-or-nothing.  While the run goes on nothing is written and
\* no status is set.  A run in which a step raised ends with status 1, nothing
\* on the output channel and one non-empty diagnostic line; a run in which no
\* step raised ends with status 0, exactly one line on the output channel that
\* decodes to a JSON object, and no diagnostic.
C1_AllOrNothing ==
    /\ ~Exited => stdout = <<>> /\ stderr = <<>> /\ exitCode = -1
    /\ Exited /\ exc # NoException =>
           /\ exitCode = 1
           /\ stdout = <<>>
           /\ stderr = <<exc.msg>>
           /\ exc.msg # <<>>
    /\ Exited /\ exc = NoException =>
           /\ exitCode = 0
           /\ stderr = <<>>
           /\ OneLine(stdout)
           /\ LineDecoded(stdout).ok
           /\ IsDict(LineDecoded(stdout).val)

\* C1 witness: a run that got a reply, failed to extract an action from it and
\* ended with nothing written to the output channel
C1_Witness ==
    /\ Exited
    /\ GotReply
    /\ exc.type = "ValueError"
    /\ stdout = <<>>
    /\ exitCode = 1

\* the credential is unset or empty
CredentialAbsent == ~apiKey.set \/ apiKey.value = <<>>

\* the input is a JSON object whose env_type is a non-empty string
ValidEnvType(text) ==
    /\ JsonLoads(text).ok
    /\ IsDict(JsonLoads(text).val)
    /\ DictGet(JsonLoads(text).val, ENV_TYPE).t = "str"
    /\ DictGet(JsonLoads(text).val, ENV_TYPE).s # <<>>

\* C2: with the credential unset or empty and an input with a valid env_type,
\* no request is ever sent, the run cannot stop before its end, and it ends in
\* failure with a diagnostic that names OPENROUTER_API_KEY, whatever the
\* skills directory holds.
C2_MissingCredential ==
    CredentialAbsent /\ ValidEnvType(stdin) =>
        /\ requests = <<>>
        /\ Exited \/ ENABLED Next
        /\ Exited =>
               /\ exitCode = 1
               /\ stdout = <<>>
               /\ Len(stderr) = 1
               /\ "OPENROUTER_API_KEY" \in Range(stderr[1])

\* C2 witness: such a run has ended, with the skill document in place and the
\* credential set to the empty string
C2_Witness ==
    /\ Exited
    /\ apiKey = SetEnv(<<>>)
    /\ ValidEnvType(stdin)
    /\ RPG_PLAYER_MD \in skillsDir
    /\ exitCode = 1

\* the whole trimmed reply is a JSON object
PureObject(text) == JsonLoads(Strip(text)).ok /\ IsDict(JsonLoads(Strip(text)).val)

\* C3: round-trip identity.  For an input with a valid env_type, when the reply
\* is a pure JSON object the run succeeds and the emitted line decodes to that
\* object, also when a string value of the object holds fences or braces.
C3_RoundTripIdentity ==
    Exited /\ ValidEnvType(stdin) /\ GotReply /\ PureObject(Reply) =>
        /\ exitCode = 0
        /\ OneLine(stdout)
        /\ LineDecoded(stdout).ok
        /\ PyEq(LineDecoded(stdout).val, JsonLoads(Strip(Reply)).val)

\* the text inside a fence that wraps the whole of text, else text
Unfenced(text) ==
    IF Len(text) >= 6 /\ HasAt(text, 1, FENCE) /\ HasAt(text, Len(text) - 2, FENCE)
    THEN Strip(SubSeq(text, IF HasAt(text, 4, JSON_TAG) THEN 8 ELSE 4, Len(text) - 3))
    ELSE text

\* text has no "{" followed later by a "}"
NoBracePair(text) ==
    ~\E i, j \in 1..Len(text) : i < j /\ text[i] = "{" /\ text[j] = "}"

\* the JSON content of text, fenced or not, is an array or a scalar
ArrayOrScalar(text) ==
    /\ JsonLoads(Unfenced(Strip(text))).ok
    /\ ~IsDict(JsonLoads(Unfenced(Strip(text))).val)

\* C4: a reply with no brace pair, or whose JSON content is an array or a
\* scalar (an array of objects included, fenced or not), never yields an
\* action: extraction raises the extraction error.
C4_ArrayOrScalarFails ==
    GotReply /\ pc \in {"emit", "except", "exit"}
             /\ (NoBracePair(Reply) \/ ArrayOrScalar(Reply)) =>
        /\ pc # "emit"
        /\ exc = Exception("ValueError", NO_ACTION_MESSAGE)
        /\ stdout = <<>>

\* positions i..j of text are the content of a fenced block: before i a fence,
\* an optional json tag and only whitespace; after j only whitespace and a fence
InFence(text, i, j) ==
    /\ \E f \in 1..(i - 1) :
           /\ HasAt(text, f, FENCE)
           /\ \E t \in {f + 3} \cup (IF HasAt(text, f + 3, JSON_TAG) THEN {f + 7} ELSE {}) :
                  /\ t <= i
                  /\ \A k \in t..(i - 1) : text[k] \in PyWhitespace
    /\ \E g \in (j + 1)..Len(text) :
           /\ HasAt(text, g, FENCE)
           /\ \A k \in (j + 1)..(g - 1) : text[k] \in PyWhitespace

\* the texts an action may be parsed from: the whole trimmed text, the span from
\* the first "{" to the last "}", and the brace-delimited content of a fence
SourceTexts(text) ==
    {Strip(text)}
    \cup {SubSeq(text, i, j) : <<i, j>> \in
             {p \in (1..Len(text)) \X (1..Len(text)) :
                 /\ p[1] < p[2]
                 /\ text[p[1]] = "{"
                 /\ text[p[2]] = "}"
                 /\ \/ p[1] = Find(text, "{") /\ p[2] = RFind(text, "}")
                    \/ InFence(text, p[1], p[2])}}

\* C5: every action emitted on the output channel is a JSON object, equal to
\* what parsing one unmodified piece of the reply gives (the whole trimmed text,
\* the first-brace-to-last-brace span or the content of a fence), that piece
\* being valid JSON from end to end; an array, a scalar or null is never emitted.
C5_EmittedActionIsParsedObject ==
    stdout # <<>> =>
        /\ GotReply
        /\ OneLine(stdout)
        /\ LineDecoded(stdout).ok
        /\ IsDict(LineDecoded(stdout).val)
        /\ \E src \in SourceTexts(Reply) :
               /\ JsonLoads(src).ok
               /\ IsDict(JsonLoads(src).val)
               /\ PyEq(JsonLoads(src).val, LineDecoded(stdout).val)

\* C5 witness: the action of a reply with prose around the object was emitted
C5_Witness ==
    /\ Exited
    /\ GotReply
    /\ Reply = ProseReply
    /\ stdout # <<>>
    /\ Keys(action) = {<<"a", "c", "t", "i", "o", "n">>}

\* C6: an input that is not a JSON object with a non-empty string env_type is
\* rejected by StateIngest: the run never gets past reading the state, never
\* looks up the skill document, never sends a request, and ends in failure.
C6_StateIngestRejects ==
    ~ValidEnvType(stdin) =>
        /\ pc \in {"read_state", "except", "exit"}
        /\ opened = <<>>
        /\ requests = <<>>
        /\ Exited => exitCode = 1 /\ stdout = <<>>

\* a step of the run after which it is on its way to the failure state
Failed == pc = "except"

\* C7: exactly one attempt per turn.  At most one request is ever sent, and a
\* run that ended in success sent exactly one.  A request is sent only from the
\* request step with none sent before; the wait for the response ends in the
\* action or in failure; a failure of any kind goes in one step to the terminal
\* failure state, and the terminal states are left by no step, so nothing leads
\* from a failure back to the request step.
C7_ExactlyOneAttempt ==
    /\ [](Len(requests) <= 1)
    /\ [](Exited /\ exitCode = 0 => Len(requests) = 1)
    /\ [][/\ requests' # requests =>
                 pc = "call" /\ requests = <<>> /\ Len(requests') = 1
          /\ pc = "urlopen" => pc' \in {"emit", "except"} /\ requests' = requests
          /\ Failed => pc' = "exit" /\ exitCode' = 1 /\ requests' = requests
          /\ pc = "emit" => pc' = "exit" /\ requests' = requests
          /\ ~Exited]_vars

\* C7 witness: a run whose one request did not reach the endpoint has ended in
\* failure with that one request sent
C7_Witness ==
    /\ Exited
    /\ exitCode = 1
    /\ Len(requests) = 1
    /\ body = NoBody
    /\ exc = Exception("RuntimeError",
                 <<"OpenRouter request failed:", "Connection refused">>)

NextFence(text, from) ==
    IF \E g \in from..Len(text) : HasAt(text, g, FENCE)
    THEN Min({g \in from..Len(text) : HasAt(text, g, FENCE)})
    ELSE 0

\* text holds a fenced block: a fence and a later fence that closes it
HasFencedBlock(text) ==
    /\ NextFence(text, 1) # 0
    /\ NextFence(text, NextFence(text, 1) + 3) # 0

\* the inner text of the first fenced block, without its json tag
FirstBlockInner(text) ==
    Strip(SubSeq(text,
                 IF HasAt(text, NextFence(text, 1) + 3, JSON_TAG)
                 THEN NextFence(text, 1) + 7 ELSE NextFence(text, 1) + 3,
                 NextFence(text, NextFence(text, 1) + 3) - 1))

\* the objects the parsing tiers accept from a candidate: what it parses to, or
\* else what its first-brace-to-last-brace span parses to
TierObjects(candidate) ==
    IF JsonLoads(candidate).ok /\ IsDict(JsonLoads(candidate).val)
    THEN {JsonLoads(candidate).val}
    ELSE IF Find(candidate, "{") # 0 /\ RFind(candidate, "}") > Find(candidate, "{")
    THEN {o \in {JsonLoads(SubSeq(candidate, Find(candidate, "{"),
                                  RFind(candidate, "}"))).val} :
             /\ JsonLoads(SubSeq(candidate, Find(candidate, "{"),
                                 RFind(candidate, "}"))).ok
             /\ IsDict(o)}
    ELSE {}

\* C9: fenced-block priority.  When the trimmed reply holds a fenced block, the
\* parsing tiers work on the inner text of the first one and on nothing else:
\* the action is the object they accept from it, and when they accept none the
\* run fails, whatever a later block or the text around the block holds.
C9_FirstFencedBlockPriority ==
    GotReply /\ pc \in {"emit", "except", "exit"}
             /\ HasFencedBlock(Strip(Reply)) =>
        IF TierObjects(FirstBlockInner(Strip(Reply))) = {}
        THEN exc # NoException /\ stdout = <<>>
        ELSE /\ exc = NoException
             /\ \A o \in TierObjects(FirstBlockInner(Strip(Reply))) : PyEq(action, o)

\* C10: pipeline ordering.  The skill document is opened only once the state
\* was read and validated and the credential found present, and it is opened
\* once, at the path the state names.  A request is sent only once that
\* document was read, and carries it and the credential.  A missing document
\* ends the run in failure with no request sent.  With the credential absent a
\* run whose state was accepted fails on the credential check and opens nothing.
C10_PipelineOrdering ==
    /\ opened # <<>> =>
           /\ ~CredentialAbsent
           /\ IsDict(state)
           /\ Truthy(DictGet(state, ENV_TYPE))
           /\ opened = <<SkillPath(state)>>
    /\ requests # <<>> =>
           /\ opened # <<>>
           /\ opened[1] \in skillsDir
           /\ skill_prompt = SkillDocument(opened[1])
           /\ requests = <<Request(apiKey.value, skill_prompt)>>
    /\ opened # <<>> /\ opened[1] \notin skillsDir =>
           /\ requests = <<>>
           /\ pc \in {"except", "exit"}
           /\ exc.type = "FileNotFoundError"
           /\ Exited => exitCode = 1 /\ stdout = <<>>
    /\ CredentialAbsent /\ IsDict(state) /\ pc \in {"except", "exit"} =>
           /\ exc = Exception("RuntimeError", KEY_REQUIRED)
           /\ opened = <<>>
           /\ requests = <<>>

\* C10 witness: with the credential present and the skill document missing the
\* run has ended in failure after the one lookup, with no request sent
C10_Witness ==
    /\ Exited
    /\ ~CredentialAbsent
    /\ skillsDir = {}
    /\ Len(opened) = 1
    /\ requests = <<>>
    /\ exitCode = 1

====
